---- MODULE Spec2Model ----
(***************************************************************************)
(* A model of package conf (goconf): the ConfigFile document model         *)
(* (conf.go) and the line-oriented parser ConfigFile.Read (read.go).       *)
(*                                                                         *)
(* Go strings are modelled as sequences of one-character strings, so that  *)
(* lower-casing, trimming, slicing and searching are computed character by *)
(* character as the library calls do.  Go indices are 0-based: the Go      *)
(* slice s[a:b] is Slice(s, a, b), the Go byte s[i] is s[i + 1].           *)
(***************************************************************************)
EXTENDS Integers, Sequences, FiniteSets, TLC

VARIABLES
    data,       \* ConfigFile.data: section -> option -> value
    pc,         \* "idle": no call in progress; "reading": inside the loop of Read
    stream,     \* the bytes Read's bufio.Reader has not consumed yet
    section,    \* Read's local variable section
    option,     \* Read's local variable option
    err,        \* the value returned by the last Read that returned
    op,         \* history: the last operation that acted
    args,       \* history: its arguments
    ret,        \* history: what it returned (a boolean; a record for GetString)
    prev,       \* history: data before the last operation or line
    line,       \* history: the last line Read classified (after TrimSpace)
    kind,       \* history: the case of Read's switch that line took
    psection,   \* history: Read's section before the last line
    poption,    \* history: Read's option before the last line
    rawval,     \* history: the last argument of stripComments
    stripped    \* history: the result stripComments returned for it

vars == <<data, pc, stream, section, option, err, op, args, ret, prev,
          line, kind, psection, poption, rawval, stripped>>

(***************************************************************************)
(* Strings.                                                                *)
(***************************************************************************)
Upper == <<"A","B","C","D","E","F","G","H","I","J","K","L","M",
           "N","O","P","Q","R","S","T","U","V","W","X","Y","Z">>

Lower == <<"a","b","c","d","e","f","g","h","i","j","k","l","m",
           "n","o","p","q","r","s","t","u","v","w","x","y","z">>

ToLowerChar(c) ==
    IF \E i \in 1..26 : Upper[i] = c
    THEN Lower[CHOOSE i \in 1..26 : Upper[i] = c]
    ELSE c

\* strings.ToLower
ToLower(s) == [i \in 1..Len(s) |-> ToLowerChar(s[i])]

\* the Go slice s[a:b]
Slice(s, a, b) == SubSeq(s, a + 1, b)

\* unicode.IsSpace on the characters of the model
IsSpace(c) == c \in {" ", "\t", "\n", "\r"}

\* strings.TrimSpace
TrimSpace(s) ==
    LET keep == {i \in 1..Len(s) : ~IsSpace(s[i])}
    IN  IF keep = {} THEN <<>>
        ELSE LET lo == CHOOSE i \in keep : \A j \in keep : i <= j
                 hi == CHOOSE i \in keep : \A j \in keep : j <= i
             IN  SubSeq(s, lo, hi)

\* strings.Index(l, c): the 0-based index of the first occurrence of c, or -1
Index(l, c) ==
    LET at == {i \in 0..(Len(l) - Len(c)) : Slice(l, i, i + Len(c)) = c}
    IN  IF at = {} THEN -1 ELSE CHOOSE i \in at : \A j \in at : i <= j

\* the marker list of stripComments, in the order the loop visits it
CommentMarkers == << <<" ", ";">>, <<"\t", ";">>, <<" ", "#">>, <<"\t", "#">> >>

RECURSIVE stripFrom(_, _)
stripFrom(l, k) ==
    IF k > Len(CommentMarkers) THEN l
    ELSE LET i == Index(l, CommentMarkers[k])
         IN  stripFrom(IF i # -1 THEN Slice(l, 0, i) ELSE l, k + 1)

\* a stripComments that returns at the first marker of the list it finds
stripCommentsFirstHit(l) ==
    LET hit == {k \in 1..Len(CommentMarkers) : Index(l, CommentMarkers[k]) # -1}
    IN  IF hit = {} THEN l
        ELSE LET k == CHOOSE x \in hit : \A y \in hit : x <= y
             IN  Slice(l, 0, Index(l, CommentMarkers[k]))

stripComments(l) == stripFrom(l, 1)

\* a firstIndex that looks for the first delimiter of the list only
firstIndexOneDelim(s, delim) ==
    LET at == {i \in 0..(Len(s) - 1) : s[i + 1] = delim[1]}
    IN  IF at = {} THEN -1 ELSE CHOOSE i \in at : \A j \in at : i <= j

firstIndex(s, delim) ==
    LET at == {i \in 0..(Len(s) - 1) : \E j \in 1..Len(delim) : s[i + 1] = delim[j]}
    IN  IF at = {} THEN -1 ELSE CHOOSE i \in at : \A j \in at : i <= j

(***************************************************************************)
(* Error values.                                                           *)
(***************************************************************************)
SectionNotFound == 0
OptionNotFound == 1
MaxDepthReached == 2
BlankSection == 3
CouldNotParse == 4

Nil == [type |-> "nil"]

ReadError(reason, l) == [type |-> "ReadError", Reason |-> reason, Line |-> l]

(***************************************************************************)
(* The document model.  A Go map is a function; deleting a key restricts   *)
(* its domain.                                                             *)
(***************************************************************************)
DefaultSection == <<"d","e","f","a","u","l","t">>

EmptyMap == [x \in {} |-> <<>>]

MapPut(m, k, v) == [x \in (DOMAIN m) \cup {k} |-> IF x = k THEN v ELSE m[x]]

MapDel(m, k) == [x \in (DOMAIN m) \ {k} |-> m[x]]

\* an AddSection that replaces the option map of a section that exists
AddSectionReset(d, name) ==
    LET s == ToLower(name)
    IN  [data |-> MapPut(d, s, EmptyMap), ret |-> s \notin DOMAIN d]

AddSection(d, name) ==
    LET s == ToLower(name)
    IN  IF s \in DOMAIN d
        THEN [data |-> d, ret |-> FALSE]
        ELSE [data |-> MapPut(d, s, EmptyMap), ret |-> TRUE]

\* a RemoveSection without the case of the default section
RemoveSectionAny(d, name) ==
    LET s == ToLower(name)
    IN  IF s \notin DOMAIN d
        THEN [data |-> d, ret |-> FALSE]
        ELSE [data |-> MapDel(d, s), ret |-> TRUE]

\* a RemoveSection that deletes the options and keeps the empty section
RemoveSectionKeepEmpty(d, name) ==
    LET s == ToLower(name)
    IN  IF s \notin DOMAIN d
        THEN [data |-> d, ret |-> FALSE]
        ELSE IF s = DefaultSection
        THEN [data |-> d, ret |-> FALSE]
        ELSE [data |-> MapPut(d, s, EmptyMap), ret |-> TRUE]

RemoveSection(d, name) ==
    LET s == ToLower(name)
    IN  IF s \notin DOMAIN d
        THEN [data |-> d, ret |-> FALSE]
        ELSE IF s = DefaultSection
        THEN [data |-> d, ret |-> FALSE]
        ELSE [data |-> MapDel(d, s), ret |-> TRUE]

\* an AddOption that stores the option name as it was passed
AddOptionKeepCase(d, sec, opt, value) ==
    LET d1 == AddSection(d, sec).data
        s  == ToLower(sec)
    IN  [data |-> MapPut(d1, s, MapPut(d1[s], opt, value)),
         ret  |-> opt \notin DOMAIN d1[s]]

\* an AddOption that returns ok instead of !ok
AddOptionRetOk(d, sec, opt, value) ==
    LET d1 == AddSection(d, sec).data
        s  == ToLower(sec)
        o  == ToLower(opt)
    IN  [data |-> MapPut(d1, s, MapPut(d1[s], o, value)),
         ret  |-> o \in DOMAIN d1[s]]

AddOption(d, sec, opt, value) ==
    LET d1 == AddSection(d, sec).data
        s  == ToLower(sec)
        o  == ToLower(opt)
        ok == o \in DOMAIN d1[s]
    IN  [data |-> MapPut(d1, s, MapPut(d1[s], o, value)), ret |-> ~ok]

\* a RemoveOption that deletes the whole section
RemoveOptionWholeSection(d, sec, opt) ==
    LET s == ToLower(sec)
        o == ToLower(opt)
    IN  IF s \notin DOMAIN d
        THEN [data |-> d, ret |-> FALSE]
        ELSE [data |-> MapPut(d, s, EmptyMap), ret |-> o \in DOMAIN d[s]]

RemoveOption(d, sec, opt) ==
    LET s == ToLower(sec)
        o == ToLower(opt)
    IN  IF s \notin DOMAIN d
        THEN [data |-> d, ret |-> FALSE]
        ELSE [data |-> MapPut(d, s, MapDel(d[s], o)), ret |-> o \in DOMAIN d[s]]

NewConfigFile == AddSection(EmptyMap, DefaultSection).data

\* GetRawString: the stored value, or "" and an error
GetRawString(d, sec, opt) ==
    LET s == ToLower(sec)
        o == ToLower(opt)
    IN  IF s \notin DOMAIN d
        THEN [value |-> <<>>, reason |-> SectionNotFound, ok |-> FALSE]
        ELSE IF o \notin DOMAIN d[s]
        THEN [value |-> <<>>, reason |-> OptionNotFound, ok |-> FALSE]
        ELSE [value |-> d[s][o], reason |-> -1, ok |-> TRUE]

(***************************************************************************)
(* Read (read.go).  One action per case of the switch in the loop; each    *)
(* action is one iteration of the loop: ReadString, TrimSpace, the case.   *)
(***************************************************************************)
HasNewline(s) == \E i \in 1..Len(s) : s[i] = "\n"

\* bufio.Reader.ReadString('\n'): the bytes up to and including the first
\* newline; at the end of the input, the bytes that are left and os.EOF
ReadString(s) ==
    IF HasNewline(s)
    THEN LET i == CHOOSE k \in 1..Len(s) :
                      s[k] = "\n" /\ \A j \in 1..(k - 1) : s[j] # "\n"
         IN  [l |-> SubSeq(s, 1, i), rest |-> SubSeq(s, i + 1, Len(s)), eof |-> FALSE]
    ELSE [l |-> s, rest |-> <<>>, eof |-> TRUE]

Separators == <<"=", ":">>

\* a switch that takes a line with a separator at index 0 for an option line
KindSepAtZero(l, sec, opt) ==
    IF Len(l) = 0 THEN "blank"
    ELSE IF l[1] = "#" THEN "comment"
    ELSE IF l[1] = ";" THEN "comment"
    ELSE IF Len(l) >= 3 /\ ToLower(Slice(l, 0, 3)) = <<"r", "e", "m">> THEN "rem"
    ELSE IF l[1] = "[" /\ l[Len(l)] = "]" THEN "header"
    ELSE IF sec = <<>> THEN "blanksection"
    ELSE IF firstIndex(l, Separators) >= 0 THEN "option"
    ELSE IF sec # <<>> /\ opt # <<>> THEN "continuation"
    ELSE "noparse"

\* a switch whose continuation case does not ask for a current option
KindNoOptionCheck(l, sec, opt) ==
    IF Len(l) = 0 THEN "blank"
    ELSE IF l[1] = "#" THEN "comment"
    ELSE IF l[1] = ";" THEN "comment"
    ELSE IF Len(l) >= 3 /\ ToLower(Slice(l, 0, 3)) = <<"r", "e", "m">> THEN "rem"
    ELSE IF l[1] = "[" /\ l[Len(l)] = "]" THEN "header"
    ELSE IF sec = <<>> THEN "blanksection"
    ELSE IF firstIndex(l, Separators) > 0 THEN "option"
    ELSE IF sec # <<>> THEN "continuation"
    ELSE "noparse"

\* a switch without the case of the empty section name
KindNoBlankCheck(l, sec, opt) ==
    IF Len(l) = 0 THEN "blank"
    ELSE IF l[1] = "#" THEN "comment"
    ELSE IF l[1] = ";" THEN "comment"
    ELSE IF Len(l) >= 3 /\ ToLower(Slice(l, 0, 3)) = <<"r", "e", "m">> THEN "rem"
    ELSE IF l[1] = "[" /\ l[Len(l)] = "]" THEN "header"
    ELSE IF firstIndex(l, Separators) > 0 THEN "option"
    ELSE IF opt # <<>> THEN "continuation"
    ELSE "noparse"

\* the case of the switch that the trimmed line l takes
Kind(l, sec, opt) ==
    IF Len(l) = 0 THEN "blank"
    ELSE IF l[1] = "#" THEN "comment"
    ELSE IF l[1] = ";" THEN "comment"
    ELSE IF Len(l) >= 3 /\ ToLower(Slice(l, 0, 3)) = <<"r", "e", "m">> THEN "rem"
    ELSE IF l[1] = "[" /\ l[Len(l)] = "]" THEN "header"
    ELSE IF sec = <<>> THEN "blanksection"
    ELSE IF firstIndex(l, Separators) > 0 THEN "option"
    ELSE IF sec # <<>> /\ opt # <<>> THEN "continuation"
    ELSE "noparse"

\* the line the next iteration of the loop classifies
NextLine == TrimSpace(ReadString(stream).l)

\* what every iteration that classifies a line does (section and option are
\* Read's locals: they end with the call, and are empty outside it)
ReadIter(k) ==
    /\ pc = "reading"
    /\ ~ReadString(stream).eof
    /\ Kind(NextLine, section, option) = k
    /\ stream' = ReadString(stream).rest
    /\ line' = NextLine
    /\ kind' = k
    /\ prev' = data
    /\ psection' = section
    /\ poption' = option
    /\ op' = "ReadLine"
    /\ UNCHANGED <<args, ret>>

ReadEOF ==
    /\ pc = "reading"
    /\ ReadString(stream).eof
    /\ pc' = "idle"
    /\ err' = Nil
    /\ stream' = <<>>
    /\ line' = ReadString(stream).l
    /\ kind' = "eof"
    /\ prev' = data
    /\ psection' = section
    /\ poption' = option
    /\ op' = "ReadLine"
    /\ section' = <<>>
    /\ option' = <<>>
    /\ UNCHANGED <<data, args, ret, rawval, stripped>>

\* a skip that forgets the option a later line could continue
ReadSkipResetOption ==
    /\ \E k \in {"blank", "comment", "rem"} : ReadIter(k)
    /\ option' = <<>>
    /\ UNCHANGED <<data, pc, section, err, rawval, stripped>>

ReadSkip ==
    /\ \E k \in {"blank", "comment", "rem"} : ReadIter(k)
    /\ UNCHANGED <<data, pc, section, option, err, rawval, stripped>>

ReadHeader ==
    /\ ReadIter("header")
    /\ option' = <<>>
    /\ section' = TrimSpace(Slice(NextLine, 1, Len(NextLine) - 1))
    /\ data' = AddSection(data, section').data
    /\ UNCHANGED <<pc, err, rawval, stripped>>

ReadBlankSection ==
    /\ ReadIter("blanksection")
    /\ err' = ReadError(BlankSection, NextLine)
    /\ pc' = "idle"
    /\ section' = <<>>
    /\ option' = <<>>
    /\ UNCHANGED <<data, rawval, stripped>>

\* a split that takes the value from the separator on
ReadOptionKeepSep ==
    /\ ReadIter("option")
    /\ LET l == NextLine
           i == firstIndex(l, Separators)
       IN  /\ option' = TrimSpace(Slice(l, 0, i))
           /\ rawval' = Slice(l, i, Len(l))
           /\ stripped' = stripComments(rawval')
           /\ data' = AddOption(data, section, option', TrimSpace(stripped')).data
    /\ UNCHANGED <<pc, section, err>>

ReadOption ==
    /\ ReadIter("option")
    /\ LET l == NextLine
           i == firstIndex(l, Separators)
       IN  /\ option' = TrimSpace(Slice(l, 0, i))
           /\ rawval' = Slice(l, i + 1, Len(l))
           /\ stripped' = stripComments(rawval')
           /\ data' = AddOption(data, section, option', TrimSpace(stripped')).data
    /\ UNCHANGED <<pc, section, err>>

\* a continuation that puts the new line before the old value
ReadContinuationPrepend ==
    /\ ReadIter("continuation")
    /\ LET l == NextLine
           old == GetRawString(data, section, option).value
       IN  /\ rawval' = l
           /\ stripped' = stripComments(l)
           /\ data' = AddOption(data, section, option,
                                TrimSpace(stripped') \o <<"\n">> \o old).data
    /\ UNCHANGED <<pc, section, option, err>>

ReadContinuation ==
    /\ ReadIter("continuation")
    /\ LET l == NextLine
           old == GetRawString(data, section, option).value
       IN  /\ rawval' = l
           /\ stripped' = stripComments(l)
           /\ data' = AddOption(data, section, option,
                                old \o <<"\n">> \o TrimSpace(stripped')).data
    /\ UNCHANGED <<pc, section, option, err>>

\* a default case that records the error and goes on with the next line
ReadCouldNotParseGoOn ==
    /\ ReadIter("noparse")
    /\ err' = ReadError(CouldNotParse, NextLine)
    /\ UNCHANGED <<data, pc, section, option, rawval, stripped>>

ReadCouldNotParse ==
    /\ ReadIter("noparse")
    /\ err' = ReadError(CouldNotParse, NextLine)
    /\ pc' = "idle"
    /\ section' = <<>>
    /\ option' = <<>>
    /\ UNCHANGED <<data, rawval, stripped>>

\* an iteration whose header case creates the section and stays in the old one
StepHeaderKeepsSection(st, raw) ==
    LET l == TrimSpace(raw)
        k == Kind(l, st.section, st.option)
        i == firstIndex(l, Separators)
    IN  CASE k \in {"blank", "comment", "rem"} ->
                [data |-> st.data, section |-> st.section, option |-> st.option,
                 err |-> Nil]
          [] k = "header" ->
                LET sec == TrimSpace(Slice(l, 1, Len(l) - 1))
                IN  [data |-> AddSection(st.data, sec).data, section |-> st.section,
                     option |-> <<>>, err |-> Nil]
          [] k = "blanksection" ->
                [data |-> st.data, section |-> st.section, option |-> st.option,
                 err |-> ReadError(BlankSection, l)]
          [] k = "option" ->
                LET opt == TrimSpace(Slice(l, 0, i))
                    value == TrimSpace(stripComments(Slice(l, i + 1, Len(l))))
                IN  [data |-> AddOption(st.data, st.section, opt, value).data,
                     section |-> st.section, option |-> opt, err |-> Nil]
          [] k = "continuation" ->
                LET old == GetRawString(st.data, st.section, st.option).value
                    value == TrimSpace(stripComments(l))
                IN  [data |-> AddOption(st.data, st.section, st.option,
                                        old \o <<"\n">> \o value).data,
                     section |-> st.section, option |-> st.option, err |-> Nil]
          [] OTHER ->
                [data |-> st.data, section |-> st.section, option |-> st.option,
                 err |-> ReadError(CouldNotParse, l)]

\* one iteration of the loop of Read as a function: the locals and the
\* configuration after the line raw, and the error the iteration returns
Step(st, raw) ==
    LET l == TrimSpace(raw)
        k == Kind(l, st.section, st.option)
        i == firstIndex(l, Separators)
    IN  CASE k \in {"blank", "comment", "rem"} ->
                [data |-> st.data, section |-> st.section, option |-> st.option,
                 err |-> Nil]
          [] k = "header" ->
                LET sec == TrimSpace(Slice(l, 1, Len(l) - 1))
                IN  [data |-> AddSection(st.data, sec).data, section |-> sec,
                     option |-> <<>>, err |-> Nil]
          [] k = "blanksection" ->
                [data |-> st.data, section |-> st.section, option |-> st.option,
                 err |-> ReadError(BlankSection, l)]
          [] k = "option" ->
                LET opt == TrimSpace(Slice(l, 0, i))
                    value == TrimSpace(stripComments(Slice(l, i + 1, Len(l))))
                IN  [data |-> AddOption(st.data, st.section, opt, value).data,
                     section |-> st.section, option |-> opt, err |-> Nil]
          [] k = "continuation" ->
                LET old == GetRawString(st.data, st.section, st.option).value
                    value == TrimSpace(stripComments(l))
                IN  [data |-> AddOption(st.data, st.section, st.option,
                                        old \o <<"\n">> \o value).data,
                     section |-> st.section, option |-> st.option, err |-> Nil]
          [] OTHER ->
                [data |-> st.data, section |-> st.section, option |-> st.option,
                 err |-> ReadError(CouldNotParse, l)]

RECURSIVE Run(_, _)
\* the loop of Read on the text t, from the locals and configuration st
Run(st, t) ==
    IF ReadString(t).eof THEN [data |-> st.data, err |-> Nil]
    ELSE LET n == Step(st, ReadString(t).l)
         IN  IF n.err # Nil THEN [data |-> n.data, err |-> n.err]
             ELSE Run(n, ReadString(t).rest)

\* Read as a function: the configuration d after c.Read(t), and its result
Read(d, t) ==
    Run([data |-> d, section |-> DefaultSection, option |-> <<>>, err |-> Nil], t)

(***************************************************************************)
(* The serializer: the header as comment lines, then for every section a   *)
(* [name] line and its option=value lines.  The order of the sections and  *)
(* of the options of a section is the iteration order of a map, which is   *)
(* any order.                                                              *)
(***************************************************************************)
\* the orders in which the elements of the set S can be visited
Orders(S) ==
    {f \in [1..Cardinality(S) -> S] : \A i, j \in 1..Cardinality(S) : f[i] = f[j] => i = j}

RECURSIVE WriteOptions(_, _)
\* the option=value lines of the option map m, in the order os
WriteOptions(m, os) ==
    IF os = <<>> THEN <<>>
    ELSE Head(os) \o <<"=">> \o m[Head(os)] \o <<"\n">> \o WriteOptions(m, Tail(os))

RECURSIVE WriteSections(_, _, _)
\* the sections of d in the order ss, the options of section s in the order oo[s]
WriteSections(d, ss, oo) ==
    IF ss = <<>> THEN <<>>
    ELSE <<"[">> \o Head(ss) \o <<"]", "\n">> \o WriteOptions(d[Head(ss)], oo[Head(ss)])
         \o WriteSections(d, Tail(ss), oo)

RECURSIVE WriteHeader(_)
\* the header lines, each as a comment line
WriteHeader(hs) ==
    IF hs = <<>> THEN <<>>
    ELSE <<"#", " ">> \o Head(hs) \o <<"\n">> \o WriteHeader(Tail(hs))

\* every text that writing the configuration d with the header lines hs can give
Write(d, hs) ==
    {WriteHeader(hs) \o WriteSections(d, ss, oo) :
        ss \in Orders(DOMAIN d),
        oo \in {f \in [DOMAIN d -> UNION {Orders(DOMAIN d[s]) : s \in DOMAIN d}] :
                    \A s \in DOMAIN d : f[s] \in Orders(DOMAIN d[s])}}

(***************************************************************************)
(* Calls of the document-model operations and of Read, one at a time.      *)
(***************************************************************************)
Call(name, a, r) ==
    /\ pc = "idle"
    /\ op' = name
    /\ args' = a
    /\ ret' = r.ret
    /\ data' = r.data
    /\ prev' = data
    /\ line' = <<>>
    /\ kind' = ""
    /\ psection' = <<>>
    /\ poption' = <<>>
    /\ rawval' = <<>>
    /\ stripped' = <<>>
    /\ UNCHANGED <<pc, stream, section, option, err>>

SecNames == {DefaultSection, <<"D","E","F","A","U","L","T">>, <<"s">>, <<"S">>}

OptNames == {<<"o">>, <<"O">>, <<"p">>}

Values == {<<"1">>, <<"2">>}

CallAddSection ==
    \E s \in SecNames : Call("AddSection", <<s>>, AddSection(data, s))

CallRemoveSection ==
    \E s \in SecNames : Call("RemoveSection", <<s>>, RemoveSection(data, s))

CallAddOption ==
    \E s \in SecNames, o \in OptNames, v \in Values :
        Call("AddOption", <<s, o, v>>, AddOption(data, s, o, v))

CallRemoveOption ==
    \E s \in SecNames, o \in OptNames :
        Call("RemoveOption", <<s, o>>, RemoveOption(data, s, o))

RECURSIVE Flatten(_)
\* the text of a sequence of lines, each ended by a newline
Flatten(ls) ==
    IF ls = <<>> THEN <<>> ELSE Head(ls) \o <<"\n">> \o Flatten(Tail(ls))

SeqsUpTo(S, n) == UNION {[1..k -> S] : k \in 0..n}

L_HdrFoo == <<"[", "F", "o", "o", "]">>
L_Bar == <<"B", "a", "r", "=", "1">>
L_Bar2 == <<"b", "a", "r", ":", "2", " ", "#", "x">>
L_AB == <<"a", ":", "b", "=", "c">>
L_Deleg == <<"d", "e", "l", "e", "g", "a", "t", "i", "o", "n", " ", ":", " ", "o", "n">>
L_Comments == <<"c", "o", "m", "m", "e", "n", "t", "s", "=", "T", "h", "i", "s", " ", "i", "s", " ", "a", " ", "m", "u", "l", "t", "i", "-", "l", "i", "n", "e">>
L_Entry == <<"\t", "e", "n", "t", "r", "y", "\t", ";", " ", "A", "n", "d", " ", "t", "h", "i", "s", " ", "i", "s", " ", "a", " ", "c", "o", "m", "m", "e", "n", "t">>
L_More == <<"m", "o", "r", "e">>
L_Hash == <<"#", " ", "c">>
L_Rem == <<"R", "E", "M", " ", "x">>
L_Blank == <<" ">>
L_HdrEmpty == <<"[", "]">>
L_SepFirst == <<"=", "x">>
L_HdrS == <<"[", "S", "]">>
L_O1 == <<"O", "=", "1">>

\* the texts Read is called with on a configuration that is in use
ApiStreams ==
    {Flatten(ls) : ls \in {<<L_HdrFoo, L_Bar>>, <<L_HdrS, L_O1, L_More>>,
                           <<L_More>>, <<L_Hash, L_HdrEmpty, L_More>>}}

CallRead ==
    /\ pc = "idle"
    /\ \E s \in ApiStreams :
        /\ stream' = s
        /\ args' = <<s>>
    /\ pc' = "reading"
    /\ section' = DefaultSection
    /\ option' = <<>>
    /\ err' = Nil
    /\ op' = "Read"
    /\ prev' = data
    /\ line' = <<>>
    /\ kind' = ""
    /\ psection' = <<>>
    /\ poption' = <<>>
    /\ rawval' = <<>>
    /\ stripped' = <<>>
    /\ UNCHANGED <<data, ret>>

Init ==
    /\ data = NewConfigFile
    /\ pc = "idle"
    /\ stream = <<>>
    /\ section = <<>>
    /\ option = <<>>
    /\ err = Nil
    /\ op = "NewConfigFile"
    /\ args = <<>>
    /\ ret = FALSE
    /\ prev = EmptyMap
    /\ line = <<>>
    /\ kind = ""
    /\ psection = <<>>
    /\ poption = <<>>
    /\ rawval = <<>>
    /\ stripped = <<>>

Next ==
    \/ CallAddSection
    \/ CallRemoveSection
    \/ CallAddOption
    \/ CallRemoveOption
    \/ CallRead
    \/ ReadEOF
    \/ ReadSkip
    \/ ReadHeader
    \/ ReadBlankSection
    \/ ReadOption
    \/ ReadContinuation
    \/ ReadCouldNotParse

Spec == Init /\ [][Next]_vars

(***************************************************************************)
(* ReadConfigBytes: Read on a new configuration, for every text of the     *)
(* families below.                                                         *)
(***************************************************************************)
MaxLines == 3
MaxLineLen == 3
MaxValLen == 5

CuratedLines ==
    {L_HdrFoo, L_Bar, L_Bar2, L_AB, L_Deleg, L_Comments, L_Entry, L_More,
     L_Hash, L_Rem, L_Blank, L_HdrEmpty, L_SepFirst}

\* texts of whole lines, and the same texts with a last line that has no newline
CuratedStreams ==
    {Flatten(ls) : ls \in SeqsUpTo(CuratedLines, MaxLines)}
    \cup {Flatten(ls) \o u : ls \in SeqsUpTo(CuratedLines, MaxLines - 1),
                             u \in CuratedLines}

GenChars == {"k", "=", ":", " ", "#", "[", "]"}

GenContexts == {<<>>, <<<<"[", "s", "]">>>>, <<<<"k", "=", "v">>>>, <<<<"[", "]">>>>}

\* every short line over GenChars, at the start of the text, after a header,
\* after an option line and after a header with an empty name
GenStreams ==
    {Flatten(c \o <<g>>) : c \in GenContexts, g \in SeqsUpTo(GenChars, MaxLineLen)}

StripChars == {"x", " ", "\t", ";", "#"}

\* every short value over StripChars, in an option line and in a continuation line
ValStreams ==
    {Flatten(<<<<"k", "=">> \o v>>) : v \in SeqsUpTo(StripChars, MaxValLen)}
    \cup {Flatten(<<<<"k", "=", "v">>, <<"x">> \o v>>) : v \in SeqsUpTo(StripChars, MaxValLen)}

L_Bracket == <<"[", "a", "=", "x", "]", " ", ";", "c">>

\* an option line that starts with [ and whose value ends with ]
EdgeStreams == {Flatten(ls) : ls \in {<<L_Bracket>>, <<L_HdrFoo, L_Bar, L_Bracket>>}}

Streams == CuratedStreams \cup GenStreams \cup ValStreams \cup EdgeStreams

\* a Read that starts with no current section
InitReadNoSection ==
    /\ data = NewConfigFile
    /\ pc = "reading"
    /\ stream \in Streams
    /\ section = <<>>
    /\ option = <<>>
    /\ err = Nil
    /\ op = "Read"
    /\ args = <<stream>>
    /\ ret = FALSE
    /\ prev = NewConfigFile
    /\ line = <<>>
    /\ kind = ""
    /\ psection = <<>>
    /\ poption = <<>>
    /\ rawval = <<>>
    /\ stripped = <<>>

InitRead ==
    /\ data = NewConfigFile
    /\ pc = "reading"
    /\ stream \in Streams
    /\ section = DefaultSection
    /\ option = <<>>
    /\ err = Nil
    /\ op = "Read"
    /\ args = <<stream>>
    /\ ret = FALSE
    /\ prev = NewConfigFile
    /\ line = <<>>
    /\ kind = ""
    /\ psection = <<>>
    /\ poption = <<>>
    /\ rawval = <<>>
    /\ stripped = <<>>

NextRead ==
    \/ ReadEOF
    \/ ReadSkip
    \/ ReadHeader
    \/ ReadBlankSection
    \/ ReadOption
    \/ ReadContinuation
    \/ ReadCouldNotParse

SpecRead == InitRead /\ [][NextRead]_vars

(***************************************************************************)
(* Interpolation (GetString): references %(identifier)s in a value are     *)
(* replaced, leftmost first, by the raw value of identifier in the default *)
(* section, for at most DepthValues passes.                                *)
(***************************************************************************)
DepthValues == 200

GetError(reason, sec, opt) ==
    [type |-> "GetError", Reason |-> reason, Section |-> sec, Option |-> opt]

Digits == {"0", "1", "2", "3", "4", "5", "6", "7", "8", "9"}

\* a character class without the dash
IdentCharsNoDash ==
    {Lower[i] : i \in 1..26} \cup {Upper[i] : i \in 1..26} \cup Digits \cup {"_", "."}

\* the character class [a-zA-Z0-9_.\-] of varRegExp
IdentChars ==
    {Lower[i] : i \in 1..26} \cup {Upper[i] : i \in 1..26} \cup Digits
        \cup {"_", ".", "-"}

\* the end (0-based, exclusive) of the longest run of identifier characters
\* that starts at i
IdentEnd(v, i) ==
    CHOOSE e \in i..Len(v) :
        /\ \A j \in (i + 1)..e : v[j] \in IdentChars
        /\ e = Len(v) \/ v[e + 1] \notin IdentChars

\* varRegExp matches at the 0-based position i of v
MatchAt(v, i) ==
    /\ i + 5 <= Len(v)
    /\ v[i + 1] = "%"
    /\ v[i + 2] = "("
    /\ LET e == IdentEnd(v, i + 2)
       IN  /\ e > i + 2
           /\ e + 2 <= Len(v)
           /\ v[e + 1] = ")"
           /\ v[e + 2] = "s"

\* a match that is accepted at the start of the value only
FindMatchAnchored(v) ==
    IF ~MatchAt(v, 0)
    THEN [found |-> FALSE, start |-> -1, from |-> -1, to |-> -1, end |-> -1]
    ELSE LET e == IdentEnd(v, 2)
         IN  [found |-> TRUE, start |-> 0, from |-> 2, to |-> e, end |-> e + 2]

\* the leftmost match of varRegExp in v: the match is v[start:end], the
\* identifier is v[from:to]
FindMatch(v) ==
    LET at == {i \in 0..Len(v) : MatchAt(v, i)}
    IN  IF at = {}
        THEN [found |-> FALSE, start |-> -1, from |-> -1, to |-> -1, end |-> -1]
        ELSE LET i == CHOOSE k \in at : \A j \in at : k <= j
                 e == IdentEnd(v, i + 2)
             IN  [found |-> TRUE, start |-> i, from |-> i + 2, to |-> e,
                  end |-> e + 2]

\* one pass of the loop of GetString: st.v is the value so far, st.i the
\* number of replacements made, st.done whether the loop has been left,
\* st.reason the failed lookup's reason (-1: none)
Pass(d, st) ==
    IF st.done THEN st
    ELSE LET m == FindMatch(st.v)
         IN  IF ~m.found
             THEN [st EXCEPT !.done = TRUE]
             ELSE LET n == GetRawString(d, DefaultSection, Slice(st.v, m.from, m.to))
                  IN  IF ~n.ok
                      THEN [st EXCEPT !.done = TRUE, !.reason = n.reason]
                      ELSE [st EXCEPT
                               !.v = Slice(st.v, 0, m.start) \o n.value
                                        \o Slice(st.v, m.end, Len(st.v)),
                               !.i = st.i + 1]

RECURSIVE Passes(_, _, _)
\* n passes, one after the other: the first half of them gives the state
\* mid, the second half starts from it
Passes(d, st, n) ==
    IF n = 0 THEN st
    ELSE IF n = 1 THEN Pass(d, st)
    ELSE CHOOSE r \in {Passes(d, mid, n - (n \div 2)) :
                          mid \in {Passes(d, st, n \div 2)}} : TRUE

\* GetString: the raw value with its references unfolded in at most
\* DepthValues passes; passes counts the replacements made
GetString(d, sec, opt) ==
    LET r == GetRawString(d, sec, opt)
    IN  IF ~r.ok
        THEN [value |-> <<>>, err |-> GetError(r.reason, sec, opt), passes |-> 0]
        ELSE LET st == Passes(d, [v |-> r.value, i |-> 0, done |-> FALSE,
                                  reason |-> -1], DepthValues)
             IN  IF st.reason # -1
                 THEN [value |-> <<>>, err |-> GetError(st.reason, sec, opt),
                       passes |-> st.i]
                 ELSE IF st.i = DepthValues
                 THEN [value |-> <<>>, err |-> GetError(MaxDepthReached, sec, opt),
                       passes |-> st.i]
                 ELSE [value |-> st.v, err |-> Nil, passes |-> st.i]

RECURSIVE AddAll(_, _)
\* a configuration built by a sequence of AddOption calls
AddAll(d, ts) ==
    IF ts = <<>> THEN d
    ELSE AddAll(AddOption(d, ts[1][1], ts[1][2], ts[1][3]).data, Tail(ts))

MaxRefs == 3

\* the chain a=1, b=%(a)s2, c=%(b)s3, the cycle a=%(b)s, b=%(a)s, a cycle
\* whose reference is not at the start of the value, and options of another
\* section
RefTriples ==
    {<<DefaultSection, <<"a">>, <<"1">>>>, <<DefaultSection, <<"a">>, <<"%", "(", "b", ")", "s">>>>,
     <<DefaultSection, <<"b">>, <<"%", "(", "a", ")", "s", "2">>>>, <<DefaultSection, <<"b">>, <<"%", "(", "a", ")", "s">>>>,
     <<DefaultSection, <<"b">>, <<"x", "%", "(", "B", ")", "s">>>>, <<DefaultSection, <<"c">>, <<"%", "(", "b", ")", "s", "3">>>>,
     <<<<"s">>, <<"c">>, <<"%", "(", "b", ")", "s", "3">>>>, <<<<"s">>, <<"a">>, <<"9">>>>}

L_HdrDefault == <<"[", "d", "e", "f", "a", "u", "l", "t", "]">>
L_Host == <<"h", "o", "s", "t", "=", "w", "w", "w", ".", "e", "x", "a", "m", "p", "l", "e", ".", "c", "o", "m">>
L_Protocol == <<"p", "r", "o", "t", "o", "c", "o", "l", "=", "h", "t", "t", "p", ":", "/", "/">>
L_BaseUrl == <<"b", "a", "s", "e", "-", "u", "r", "l", "=", "%", "(", "p", "r", "o", "t", "o", "c", "o", "l", ")", "s", "%", "(", "h", "o", "s", "t", ")", "s">>
L_HdrService == <<"[", "s", "e", "r", "v", "i", "c", "e", "-", "1", "]">>
L_Url == <<"u", "r", "l", "=", "%", "(", "b", "a", "s", "e", "-", "u", "r", "l", ")", "s", "/", "s", "o", "m", "e", "/", "p", "a", "t", "h">>
L_MaxClients == <<"m", "a", "x", "c", "l", "i", "e", "n", "t", "s", "=", "2", "0", "0", " ", "#", " ", "d", "o", " ", "n", "o", "t", " ", "s", "e", "t", " ", "t", "h", "i", "s", " ", "h", "i", "g", "h", "e", "r">>

\* the sample configuration file of the package documentation
DocText ==
    Flatten(<<L_HdrDefault, L_Host, L_Protocol, L_BaseUrl, <<>>, L_HdrService,
              L_Url, L_Deleg, L_MaxClients, L_Comments, L_Entry>>)

GetConfigs ==
    {AddAll(NewConfigFile, ts) : ts \in SeqsUpTo(RefTriples, MaxRefs)}
        \cup {Read(NewConfigFile, DocText).data}

GetSecs == {DefaultSection, <<"s">>, <<"s", "e", "r", "v", "i", "c", "e", "-", "1">>}

GetOpts == {<<"a">>, <<"b">>, <<"C">>, <<"u", "r", "l">>}

CallGetString ==
    \E s \in GetSecs, o \in GetOpts :
        Call("GetString", <<s, o>>, [ret |-> GetString(data, s, o), data |-> data])

InitGet ==
    /\ data \in GetConfigs
    /\ pc = "idle"
    /\ stream = <<>>
    /\ section = <<>>
    /\ option = <<>>
    /\ err = Nil
    /\ op = "NewConfigFile"
    /\ args = <<>>
    /\ ret = FALSE
    /\ prev = EmptyMap
    /\ line = <<>>
    /\ kind = ""
    /\ psection = <<>>
    /\ poption = <<>>
    /\ rawval = <<>>
    /\ stripped = <<>>

NextGet == CallGetString

SpecGet == InitGet /\ [][NextGet]_vars

\* what ReadConfigBytes returns once Read has returned: no configuration
\* with an error, the configuration otherwise
ReadConfigBytes ==
    IF err # Nil THEN [c |-> "nil", err |-> err] ELSE [c |-> data, err |-> Nil]

(***************************************************************************)
(* Properties of the document model (checked under Spec).                  *)
(***************************************************************************)
UpperChars == {Upper[i] : i \in 1..26}

IsLowerCase(s) == \A i \in 1..Len(s) : s[i] \notin UpperChars

\* a and b differ in letter case only
SameButCase(a, b) ==
    /\ Len(a) = Len(b)
    /\ \A i \in 1..Len(a) :
        \/ a[i] = b[i]
        \/ \E k \in 1..26 : {a[i], b[i]} = {Upper[k], Lower[k]}

DefaultSpellings == {DefaultSection, <<"D","E","F","A","U","L","T">>}

\* C1: the section "default" exists in every reachable state, and
\* RemoveSection("default"), in any letter case, returns false and leaves the
\* configuration as it was, the options of the default section included.
C1_DefaultSectionAlwaysExists ==
    /\ DefaultSection \in DOMAIN data
    /\ (op = "RemoveSection" /\ args[1] \in DefaultSpellings)
        => (ret = FALSE /\ data = prev)

C1_Witness ==
    /\ op = "RemoveSection"
    /\ args[1] = <<"D","E","F","A","U","L","T">>
    /\ DOMAIN data[DefaultSection] # {}
    /\ Cardinality(DOMAIN data) > 1

\* C2: every stored section name and option name is lower-case, whatever the
\* case of the name that was passed or parsed; the entry a name addresses is
\* the one under its lower-case spelling, and parsing [Foo] / Bar=1 stores "1"
\* under ("foo", "bar") with no entry for "Foo" or "Bar".
C2_NamesStoredLowerCase ==
    /\ \A s \in DOMAIN data :
        /\ IsLowerCase(s)
        /\ \A o \in DOMAIN data[s] : IsLowerCase(o)
    /\ op = "AddSection" =>
        \E s \in DOMAIN data : SameButCase(s, args[1])
    /\ op = "AddOption" =>
        \E s \in DOMAIN data : \E o \in DOMAIN data[s] :
            /\ SameButCase(s, args[1])
            /\ SameButCase(o, args[2])
            /\ data[s][o] = args[3]
    /\ (op = "ReadLine" /\ kind = "option" /\ line = L_Bar /\ psection = <<"F", "o", "o">>) =>
        /\ <<"f", "o", "o">> \in DOMAIN data
        /\ <<"b", "a", "r">> \in DOMAIN data[<<"f", "o", "o">>]
        /\ data[<<"f", "o", "o">>][<<"b", "a", "r">>] = <<"1">>
        /\ <<"F", "o", "o">> \notin DOMAIN data
        /\ <<"B", "a", "r">> \notin DOMAIN data[<<"f", "o", "o">>]

C2_Witness ==
    /\ op = "ReadLine"
    /\ kind = "option"
    /\ line = L_Bar
    /\ psection = <<"F", "o", "o">>
    /\ data[<<"f", "o", "o">>][<<"b", "a", "r">>] = <<"1">>
    /\ <<"s">> \in DOMAIN data

\* C3: AddOption(section, option, value) creates the section if it is absent,
\* sets the option to value, returns true exactly when the option was not in
\* that section before, and leaves every other option of the section and every
\* other section as it was.
C3_AddOptionEffect ==
    op = "AddOption" =>
        LET s == ToLower(args[1])
            o == ToLower(args[2])
            before == IF s \in DOMAIN prev THEN prev[s] ELSE EmptyMap
        IN  /\ DOMAIN data = (DOMAIN prev) \cup {s}
            /\ DOMAIN data[s] = (DOMAIN before) \cup {o}
            /\ data[s][o] = args[3]
            /\ \A x \in (DOMAIN before) \ {o} : data[s][x] = before[x]
            /\ \A t \in (DOMAIN prev) \ {s} : data[t] = prev[t]
            /\ ret = (o \notin DOMAIN before)

C3_Witness ==
    /\ op = "AddOption"
    /\ ret = FALSE
    /\ LET s == ToLower(args[1])
           o == ToLower(args[2])
       IN  /\ prev[s][o] # data[s][o]
           /\ Cardinality(DOMAIN data[s]) > 1
           /\ Cardinality(DOMAIN data) > 1

\* C4: AddSection(name) returns true and creates an empty section exactly when
\* no section of that lower-cased name exists; when the section exists it
\* returns false and changes nothing, so the section keeps its options.
C4_AddSectionEffect ==
    op = "AddSection" =>
        LET s == ToLower(args[1])
        IN  /\ ret = (s \notin DOMAIN prev)
            /\ DOMAIN data = (DOMAIN prev) \cup {s}
            /\ \A t \in DOMAIN prev : data[t] = prev[t]
            /\ ret => DOMAIN data[s] = {}

C4_Witness ==
    /\ op = "AddSection"
    /\ ret = FALSE
    /\ args[1] = <<"S">>
    /\ Cardinality(DOMAIN data[<<"s">>]) = 2

\* C5: RemoveSection(name) on an existing section other than the default one
\* deletes the section with all its options, returns true and leaves every
\* other section as it was; on a name that does not exist it returns false and
\* changes nothing.
C5_RemoveSectionEffect ==
    op = "RemoveSection" =>
        LET s == ToLower(args[1])
        IN  /\ (s \in DOMAIN prev /\ s # DefaultSection) =>
                /\ ret = TRUE
                /\ DOMAIN data = (DOMAIN prev) \ {s}
                /\ \A t \in DOMAIN data : data[t] = prev[t]
            /\ (s \notin DOMAIN prev) =>
                /\ ret = FALSE
                /\ data = prev

C5_Witness ==
    /\ op = "RemoveSection"
    /\ ret = TRUE
    /\ args[1] = <<"S">>
    /\ DOMAIN prev[<<"s">>] # {}
    /\ <<"s">> \notin DOMAIN data
    /\ DOMAIN data[DefaultSection] # {}

\* C6: RemoveOption(section, option) returns true exactly when the section
\* exists and holds the option, and then deletes that key only; otherwise it
\* returns false and leaves the configuration as it was, creating no section.
C6_RemoveOptionEffect ==
    op = "RemoveOption" =>
        LET s == ToLower(args[1])
            o == ToLower(args[2])
        IN  /\ ret = (s \in DOMAIN prev /\ o \in DOMAIN prev[s])
            /\ DOMAIN data = DOMAIN prev
            /\ ret =>
                /\ DOMAIN data[s] = (DOMAIN prev[s]) \ {o}
                /\ \A x \in DOMAIN data[s] : data[s][x] = prev[s][x]
                /\ \A t \in (DOMAIN prev) \ {s} : data[t] = prev[t]
            /\ ~ret => data = prev

C6_Witness ==
    /\ op = "RemoveOption"
    /\ ret = TRUE
    /\ args = <<<<"S">>, <<"O">>>>
    /\ DOMAIN data[<<"s">>] = {<<"p">>}
    /\ DOMAIN data[DefaultSection] # {}

(***************************************************************************)
(* Properties of Read (checked under SpecRead).                            *)
(***************************************************************************)
IsSeparator(c) == c \in {"=", ":"}

NoSeparator(l) == \A i \in 1..Len(l) : ~IsSeparator(l[i])

\* the 1-based positions of l at which a comment marker starts: a space or a
\* tab immediately followed by ; or #
MarkerStarts(l) ==
    {p \in 1..(Len(l) - 1) : l[p] \in {" ", "\t"} /\ l[p + 1] \in {";", "#"}}

\* l cut at its earliest comment marker
EarliestCut(l) ==
    IF MarkerStarts(l) = {} THEN l
    ELSE LET p == CHOOSE x \in MarkerStarts(l) : \A y \in MarkerStarts(l) : x <= y
         IN  SubSeq(l, 1, p - 1)

\* the last step classified a line that is neither blank, nor a comment, nor a
\* section header
ContentLine == op = "ReadLine" /\ kind \in {"blanksection", "option", "continuation", "noparse"}

\* C7: a line with a first separator (= or :, whichever comes first) at a
\* position greater than zero is an option line: the trimmed text before the
\* separator is the option name, the trimmed, comment-stripped text after it
\* is the value stored under that option in the current section, replacing an
\* earlier value; a:b=c stores a -> "b=c", delegation : on stores
\* delegation -> "on".
C7_OptionLineSplit ==
    /\ (ContentLine /\ psection # <<>>) =>
        (kind = "option" <=>
            \E i \in 2..Len(line) :
                IsSeparator(line[i]) /\ NoSeparator(SubSeq(line, 1, i - 1)))
    /\ (op = "ReadLine" /\ kind = "option") =>
        \E i \in 2..Len(line) :
            /\ IsSeparator(line[i])
            /\ NoSeparator(SubSeq(line, 1, i - 1))
            /\ LET name == TrimSpace(SubSeq(line, 1, i - 1))
                   value == TrimSpace(EarliestCut(SubSeq(line, i + 1, Len(line))))
                   s == ToLower(psection)
               IN  /\ option = name
                   /\ section = psection
                   /\ s \in DOMAIN data
                   /\ ToLower(name) \in DOMAIN data[s]
                   /\ data[s][ToLower(name)] = value
    /\ (op = "ReadLine" /\ kind = "option" /\ line = L_AB) =>
        data[ToLower(psection)][<<"a">>] = <<"b", "=", "c">>
    /\ (op = "ReadLine" /\ kind = "option" /\ line = L_Deleg) =>
        data[ToLower(psection)][<<"d", "e", "l", "e", "g", "a", "t", "i", "o", "n">>] = <<"o", "n">>

C7_Witness ==
    /\ op = "ReadLine"
    /\ kind = "option"
    /\ line = L_Bar2
    /\ psection = <<"F", "o", "o">>
    /\ <<"b", "a", "r">> \in DOMAIN prev[<<"f", "o", "o">>]
    /\ prev[<<"f", "o", "o">>][<<"b", "a", "r">>] = <<"1">>
    /\ data[<<"f", "o", "o">>][<<"b", "a", "r">>] = <<"2">>
    /\ DOMAIN data[<<"f", "o", "o">>] = {<<"b", "a", "r">>}

\* C8: stripComments cuts its argument at the earliest position at which one
\* of the four markers (space or tab, then ; or #) starts, in whatever order
\* the markers occur; a ; or # with no space or tab right before it is kept.
C8_StripAtEarliestMarker ==
    (op = "ReadLine" /\ kind \in {"option", "continuation"}) =>
        /\ stripped = EarliestCut(rawval)
        /\ \A i \in 1..Len(stripped) : stripped[i] = rawval[i]
        /\ MarkerStarts(rawval) = {} => stripped = rawval

C8_Witness ==
    /\ op = "ReadLine"
    /\ kind = "option"
    /\ rawval = <<";", "\t", "#", " ", ";">>
    /\ stripped = <<";">>

\* C9: a line with no separator that reaches the continuation case (a current
\* section and a current option are set) replaces the value of the current
\* option by the old value, a newline and the comment-stripped, trimmed line;
\* consecutive continuation lines accumulate in the order of the stream, so
\* comments=This is a multi-line / <TAB>entry<TAB>; And this is a comment
\* gives "This is a multi-line\nentry".
C9_ContinuationAppends ==
    /\ (ContentLine /\ NoSeparator(line) /\ psection # <<>> /\ poption # <<>>)
        => kind = "continuation"
    /\ (op = "ReadLine" /\ kind = "continuation") =>
        LET s == ToLower(psection)
            o == ToLower(poption)
        IN  /\ s \in DOMAIN prev
            /\ o \in DOMAIN prev[s]
            /\ data[s][o] = prev[s][o] \o <<"\n">> \o TrimSpace(EarliestCut(line))
            /\ DOMAIN data = DOMAIN prev
            /\ DOMAIN data[s] = DOMAIN prev[s]
            /\ section = psection
            /\ option = poption
    /\ (op = "ReadLine" /\ kind = "continuation" /\ line = TrimSpace(L_Entry)
            /\ poption = <<"c", "o", "m", "m", "e", "n", "t", "s">>
            /\ prev[ToLower(psection)][<<"c", "o", "m", "m", "e", "n", "t", "s">>] = <<"T", "h", "i", "s", " ", "i", "s", " ", "a", " ", "m", "u", "l", "t", "i", "-", "l", "i", "n", "e">>) =>
        data[ToLower(psection)][<<"c", "o", "m", "m", "e", "n", "t", "s">>] = <<"T", "h", "i", "s", " ", "i", "s", " ", "a", " ", "m", "u", "l", "t", "i", "-", "l", "i", "n", "e">> \o <<"\n">> \o <<"e", "n", "t", "r", "y">>

C9_Witness ==
    /\ op = "ReadLine"
    /\ kind = "continuation"
    /\ line = L_More
    /\ poption = <<"c", "o", "m", "m", "e", "n", "t", "s">>
    /\ psection = DefaultSection
    /\ data[DefaultSection][<<"c", "o", "m", "m", "e", "n", "t", "s">>] =
           <<"T", "h", "i", "s", " ", "i", "s", " ", "a", " ", "m", "u", "l", "t", "i", "-", "l", "i", "n", "e">> \o <<"\n">> \o <<"e", "n", "t", "r", "y">> \o <<"\n">> \o <<"m", "o", "r", "e">>

RECURSIVE SplitLines(_)
\* the newline-terminated lines of a text, without their newlines
SplitLines(t) ==
    IF ~HasNewline(t) THEN <<>>
    ELSE LET r == ReadString(t)
         IN  <<SubSeq(r.l, 1, Len(r.l) - 1)>> \o SplitLines(r.rest)

\* the text of the call that Read has consumed so far
Consumed == SubSeq(args[1], 1, Len(args[1]) - Len(stream))

\* the lines Read classified before the last one
EarlierLines ==
    LET ls == SplitLines(Consumed)
    IN  IF ls = <<>> THEN <<>> ELSE SubSeq(ls, 1, Len(ls) - 1)

HeaderShaped(l) ==
    LET t == TrimSpace(l)
    IN  Len(t) > 0 /\ t[1] = "[" /\ t[Len(t)] = "]"

\* a header line whose name is empty after trimming
EmptyHeader(l) ==
    /\ HeaderShaped(l)
    /\ LET t == TrimSpace(l) IN TrimSpace(SubSeq(t, 2, Len(t) - 1)) = <<>>

\* no section header precedes the last line in the stream
NoHeaderYet == \A i \in 1..Len(EarlierLines) : ~HeaderShaped(EarlierLines[i])

C12_ReadStartsInDefault ==
    /\ (op = "ReadLine" /\ kind # "eof" /\ EarlierLines = <<>>) =>
        /\ psection = DefaultSection
        /\ poption = <<>>
    /\ (op = "ReadLine" /\ kind = "option" /\ NoHeaderYet) =>
        /\ DOMAIN data = {DefaultSection}
        /\ \E i \in 2..Len(line) :
            /\ IsSeparator(line[i])
            /\ NoSeparator(SubSeq(line, 1, i - 1))
            /\ LET name == ToLower(TrimSpace(SubSeq(line, 1, i - 1)))
               IN  /\ name \in DOMAIN data[DefaultSection]
                   /\ data[DefaultSection][name]
                        = TrimSpace(EarliestCut(SubSeq(line, i + 1, Len(line))))
    /\ (ContentLine /\ EarlierLines = <<>> /\ NoSeparator(line)) => kind = "noparse"

C12_Witness ==
    /\ op = "ReadLine"
    /\ kind = "option"
    /\ line = L_Deleg
    /\ EarlierLines = <<L_Hash, L_Bar>>
    /\ DOMAIN data = {DefaultSection}
    /\ DOMAIN data[DefaultSection] = {<<"b", "a", "r">>, <<"d", "e", "l", "e", "g", "a", "t", "i", "o", "n">>}

\* C13: Read returns at the first line that fails: the error is returned at
\* once, the failing line and the lines after it change nothing in the
\* configuration, and ReadConfigBytes returns the error with no configuration.
C13_ReadStopsAtFirstError ==
    /\ err # Nil =>
        /\ pc = "idle"
        /\ op = "ReadLine"
        /\ kind \in {"blanksection", "noparse"}
        /\ err.Line = line
        /\ data = prev
        /\ Consumed \o stream = args[1]
        /\ ~ENABLED NextRead
        /\ ReadConfigBytes = [c |-> "nil", err |-> err]
    /\ (op = "ReadLine" /\ kind \in {"blanksection", "noparse"}) => err # Nil

C13_Witness ==
    /\ err = ReadError(CouldNotParse, L_More)
    /\ pc = "idle"
    /\ stream = Flatten(<<L_Bar>>)
    /\ EarlierLines = <<L_HdrFoo>>
    /\ DOMAIN data = {DefaultSection, <<"f", "o", "o">>}
    /\ DOMAIN data[<<"f", "o", "o">>] = {}

SkipKinds == {"blank", "comment", "rem"}

\* a trimmed line that is blank, starts with # or ;, or starts with the
\* letters r, e, m in any case
IsSkipLine(l) ==
    \/ l = <<>>
    \/ l[1] \in {"#", ";"}
    \/ Len(l) >= 3 /\ SameButCase(SubSeq(l, 1, 3), <<"r", "e", "m">>)

\* untrimmed lines of the three kinds
SkipSamples == {<<>>, <<" ", "\t">>, <<"#", " ", "c">>, <<" ", " ", ";", " ", "k", "=", "v">>, <<"r", "e", "m">>, <<" ", "R", "e", "M", " ", "k", "=", "v">>, <<"R", "E", "M", "A", "R", "K">>, <<";", "[", "s", "]">>}

\* C14: blank lines, lines whose first non-blank character is # or ; and
\* lines that start with rem in any letter case are skipped: the step changes
\* neither the configuration nor the current section nor the current option
\* and Read goes on; in every state of the loop such a line would be skipped,
\* so that a text with such lines inserted is read as the text without them.
C14_SkippedLinesChangeNothing ==
    /\ (op = "ReadLine" /\ kind # "eof") => (IsSkipLine(line) <=> kind \in SkipKinds)
    /\ (op = "ReadLine" /\ kind \in SkipKinds) =>
        /\ data = prev
        /\ section = psection
        /\ option = poption
        /\ err = Nil
        /\ pc = "reading"
    /\ pc = "reading" =>
        \A k \in SkipSamples : Kind(TrimSpace(k), section, option) \in SkipKinds

C14_Witness ==
    /\ op = "ReadLine"
    /\ kind = "continuation"
    /\ EarlierLines = <<L_Comments, L_Rem>>
    /\ line = TrimSpace(L_Entry)
    /\ data[DefaultSection][<<"c", "o", "m", "m", "e", "n", "t", "s">>] = <<"T", "h", "i", "s", " ", "i", "s", " ", "a", " ", "m", "u", "l", "t", "i", "-", "l", "i", "n", "e">> \o <<"\n">> \o <<"e", "n", "t", "r", "y">>

\* the function Read and the actions of Read agree, line by line and at the end
StepAgrees ==
    /\ (op = "ReadLine" /\ kind # "eof") =>
        LET n == Step([data |-> prev, section |-> psection, option |-> poption,
                       err |-> Nil], line)
        IN  /\ n.data = data
            /\ n.err = err
            /\ pc = "reading" => (n.section = section /\ n.option = option)
    /\ (op = "ReadLine" /\ pc = "idle") =>
        Read(NewConfigFile, args[1]) = [data |-> data, err |-> err]

\* C18 as claimed: a last line with no newline is processed like the others:
\* reading a text and reading the same text followed by a newline give the
\* same configuration and the same error.
C18_Original ==
    (op = "ReadLine" /\ pc = "idle") =>
        Read(NewConfigFile, args[1] \o <<"\n">>) = [data |-> data, err |-> err]

\* C19 as claimed: a line is appended to the value of the current option only
\* when it contains neither = nor :.
C19_Original ==
    (op = "ReadLine" /\ kind = "continuation") => NoSeparator(line)

\* C20 as claimed: after Read, whether it failed or not, no section name and
\* no option name of the configuration is empty.
C20_Original ==
    \A s \in DOMAIN data :
        /\ s # <<>>
        /\ \A o \in DOMAIN data[s] : o # <<>>

(***************************************************************************)
(* Round trip (checked under SpecRead).                                    *)
(***************************************************************************)
Triples(d) == UNION {{<<s, o, d[s][o]>> : o \in DOMAIN d[s]} : s \in DOMAIN d}

Headers == {<<>>, <<<<"A", " ", "h", "e", "a", "d", "e", "r">>>>}

\* Read has returned without an error
ParsedOk == op = "ReadLine" /\ pc = "idle" /\ err = Nil

\* no value of d holds one of the characters cs
NoValueHolds(d, cs) ==
    \A s \in DOMAIN d : \A o \in DOMAIN d[s] :
        \A i \in 1..Len(d[s][o]) : d[s][o][i] \notin cs

\* every text written from d is read back as d
RoundTrips(d) ==
    \A hs \in Headers : \A t \in Write(d, hs) :
        LET r == Read(NewConfigFile, t)
        IN  r.err = Nil /\ Triples(r.data) = Triples(d)

\* C15 as claimed: a configuration obtained by parsing, written as [name]
\* lines and option=value lines and parsed again, has the same
\* section/option/value triples, when no value holds a newline or a separator.
C15_Original ==
    (ParsedOk /\ NoValueHolds(data, {"\n", "=", ":"})) => RoundTrips(data)

\* C15 as amended: the same, when in addition no value holds [ or ].
C15_RoundTrip ==
    (ParsedOk /\ NoValueHolds(data, {"\n", "=", ":", "[", "]"})) => RoundTrips(data)

C15_Witness ==
    /\ ParsedOk
    /\ EarlierLines = <<L_Bar, L_HdrFoo>>
    /\ line = <<>>
    /\ Triples(data) = {<<DefaultSection, <<"b", "a", "r">>, <<"1">>>>, <<<<"f", "o", "o">>, <<"d", "e", "l", "e", "g", "a", "t", "i", "o", "n">>, <<"o", "n">>>>}
    /\ args[1] \notin Write(data, <<>>)
    /\ RoundTrips(data)

(***************************************************************************)
(* Properties of interpolation.                                            *)
(***************************************************************************)
\* the names (lower-cased) that the references in v name
Refs(v) ==
    {ToLower(Slice(v, i + 2, IdentEnd(v, i + 2))) : i \in {k \in 0..Len(v) : MatchAt(v, k)}}

\* the names one reference away from the names of S, in the default section of d
RefStep(d, S) ==
    UNION {Refs(d[DefaultSection][o]) : o \in S \cap DOMAIN d[DefaultSection]}

RECURSIVE RefClosure(_, _)
\* S and every name some chain of references leads to from a name of S
RefClosure(d, S) ==
    IF RefStep(d, S) \subseteq S THEN S ELSE RefClosure(d, S \cup RefStep(d, S))

\* v reaches these names through references
Reached(d, v) == RefClosure(d, Refs(v))

\* every reference met while unfolding v names an option of the default section
Resolvable(d, v) == Reached(d, v) \subseteq DOMAIN d[DefaultSection]

\* the option o of the default section is on a cycle of references
OnCycle(d, o) ==
    /\ o \in DOMAIN d[DefaultSection]
    /\ o \in Reached(d, d[DefaultSection][o])

\* no reference met while unfolding v is on a cycle
Acyclic(d, v) == \A o \in Reached(d, v) : ~OnCycle(d, o)

RECURSIVE Expanded(_, _)
\* v with each reference replaced by the expanded raw value of its name in
\* the default section (for v resolvable and acyclic)
Expanded(d, v) ==
    LET at == {k \in 0..Len(v) : MatchAt(v, k)}
    IN  IF at = {} THEN v
        ELSE LET i == CHOOSE k \in at : \A j \in at : k <= j
                 e == IdentEnd(v, i + 2)
             IN  Slice(v, 0, i)
                     \o Expanded(d, d[DefaultSection][ToLower(Slice(v, i + 2, e))])
                     \o Expanded(d, Slice(v, e + 2, Len(v)))

\* the last operation was GetString on a stored option
GotOption ==
    /\ op = "GetString"
    /\ ToLower(args[1]) \in DOMAIN data
    /\ ToLower(args[2]) \in DOMAIN data[ToLower(args[1])]

RawOfGot == data[ToLower(args[1])][ToLower(args[2])]

\* C16: GetString on an option of the default section that is on a cycle of
\* references, all of them naming stored options, makes DepthValues
\* replacements and fails with MaxDepthReached, and the configuration is
\* what it was before the call.
C16_CycleFailsWithMaxDepth ==
    (/\ GotOption
     /\ ToLower(args[1]) = DefaultSection
     /\ OnCycle(data, ToLower(args[2]))
     /\ Resolvable(data, RawOfGot))
        => /\ ret = [value |-> <<>>,
                     err |-> GetError(MaxDepthReached, args[1], args[2]),
                     passes |-> DepthValues]
           /\ data = prev

C16_Witness ==
    /\ GotOption
    /\ args = <<DefaultSection, <<"b">>>>
    /\ DOMAIN data = {DefaultSection}
    /\ DOMAIN data[DefaultSection] = {<<"a">>, <<"b">>}
    /\ data[DefaultSection][<<"a">>] = <<"1">>
    /\ data[DefaultSection][<<"b">>] = <<"x", "%", "(", "B", ")", "s">>
    /\ ret.err = GetError(MaxDepthReached, DefaultSection, <<"b">>)

C16_WitnessTwo ==
    /\ GotOption
    /\ args = <<DefaultSection, <<"a">>>>
    /\ data[DefaultSection][<<"a">>] = <<"%", "(", "b", ")", "s">>
    /\ <<"b">> \in DOMAIN data[DefaultSection]
    /\ data[DefaultSection][<<"b">>] = <<"%", "(", "a", ")", "s">>
    /\ ret.err = GetError(MaxDepthReached, DefaultSection, <<"a">>)

\* C17: GetString on an option, of any section, whose references all name
\* stored options of the default section and reach no cycle, returns no
\* error and the value with every reference replaced by the raw value of its
\* name in the default section, itself expanded; no reference is left in it.
\* With a=1 and b=%(a)s2 in the default section, %(b)s3 gives 123; with
\* the sample file, url of service-1 gives http://www.example.com/some/path.
C17_ChainResolves ==
    /\ (GotOption /\ Resolvable(data, RawOfGot) /\ Acyclic(data, RawOfGot))
        => /\ ret.err = Nil
           /\ ret.value = Expanded(data, RawOfGot)
           /\ \A k \in 0..Len(ret.value) : ~MatchAt(ret.value, k)
           /\ ret.passes < DepthValues
           /\ data = prev
    /\ (/\ GotOption
        /\ RawOfGot = <<"%", "(", "b", ")", "s", "3">>
        /\ {<<"a">>, <<"b">>} \subseteq DOMAIN data[DefaultSection]
        /\ data[DefaultSection][<<"a">>] = <<"1">>
        /\ data[DefaultSection][<<"b">>] = <<"%", "(", "a", ")", "s", "2">>)
        => ret.value = <<"1", "2", "3">>
    /\ (GotOption /\ data = Read(NewConfigFile, DocText).data
            /\ args = <<<<"s", "e", "r", "v", "i", "c", "e", "-", "1">>, <<"u", "r", "l">>>>)
        => ret.value = <<"h", "t", "t", "p", ":", "/", "/", "w", "w", "w", ".", "e", "x", "a", "m", "p", "l", "e", ".", "c", "o", "m", "/", "s", "o", "m", "e", "/", "p", "a", "t", "h">>

\* the chain a=1, b=%(a)s2, c=%(b)s3 read through the option c of section s
C17_Witness ==
    /\ GotOption
    /\ args = <<<<"s">>, <<"C">>>>
    /\ data[DefaultSection] = AddAll(NewConfigFile,
                                     <<<<DefaultSection, <<"a">>, <<"1">>>>,
                                       <<DefaultSection, <<"b">>, <<"%", "(", "a", ")", "s", "2">>>>>>)[DefaultSection]
    /\ RawOfGot = <<"%", "(", "b", ")", "s", "3">>
    /\ ret = [value |-> <<"1", "2", "3">>, err |-> Nil, passes |-> 2]

\* the sample file: url of service-1 unfolds through base-url
C17_WitnessDoc ==
    /\ GotOption
    /\ args = <<<<"s", "e", "r", "v", "i", "c", "e", "-", "1">>, <<"u", "r", "l">>>>
    /\ RawOfGot = <<"%", "(", "b", "a", "s", "e", "-", "u", "r", "l", ")", "s", "/", "s", "o", "m", "e", "/", "p", "a", "t", "h">>
    /\ ret = [value |-> <<"h", "t", "t", "p", ":", "/", "/", "w", "w", "w", ".", "e", "x", "a", "m", "p", "l", "e", ".", "c", "o", "m", "/", "s", "o", "m", "e", "/", "p", "a", "t", "h">>, err |-> Nil, passes |-> 3]

====
